---- MODULE Spec2Model ----
(***************************************************************************)
(* Model of the command matching server (Aakash-star320/MimeAPI).          *)
(*                                                                         *)
(* A JavaScript string is a sequence of one-character strings, so that     *)
(* "ab" is <<"a","b">>.  The value null/undefined is the constant Null.    *)
(* Array and string indexes keep the 0-based values of the source; the     *)
(* operators translate them to the 1-based sequences of TLA+.              *)
(***************************************************************************)
EXTENDS Integers, Sequences, FiniteSets, TLC

(* ------------------------------ bounds --------------------------------- *)

\* longest user input, in characters
MaxInputLen == 3

\* number of INSERTs the commands table receives in one behaviour
MaxCmds == 2

\* number of milliseconds Date.now() runs through in one behaviour
MaxClock == 2

(* --------------------------- JavaScript values -------------------------- *)

\* null / undefined: a value that is not a string
Null == <<"null">>

\* typeof text === 'string'
IsString(text) == text # Null

\* the characters user inputs are drawn from
InputChars == {"a", "A", ",", " "}

\* all strings over InputChars of length at most n
Strings(n) == UNION {[1..k -> InputChars] : k \in 0..n}

\* const punctuationChars = [...]
punctuationChars ==
  {",", ".", "?", "!", ";", ":", "\"", "'", "(", ")", "[", "]", "{", "}",
   "-", "_", "/", "\\"}

\* the characters the regular expression class \s and trim() treat as space
WhitespaceChars == {" ", "\t", "\n", "\r"}

\* String.prototype.toLowerCase on one character of the model's alphabet
LowerChar(c) ==
  CASE c = "A" -> "a"
    [] c = "B" -> "b"
    [] OTHER -> c

\* String.prototype.toLowerCase
toLowerCase(s) == [i \in 1..Len(s) |-> LowerChar(s[i])]

\* code unit of a character, for the ordering of command_name
CharCode(c) ==
  CASE c = "\t" -> 9
    [] c = " " -> 32
    [] c = "," -> 44
    [] c = "." -> 46
    [] c = "A" -> 65
    [] c = "B" -> 66
    [] c = "a" -> 97
    [] c = "b" -> 98
    [] OTHER -> 127

\* String.prototype.substring(start, end): arguments are clamped to
\* [0, length] and swapped when start > end
substring(s, start, end) ==
  LET clamp(x) == IF x < 0 THEN 0 ELSE IF x > Len(s) THEN Len(s) ELSE x
      a == clamp(start)
      b == clamp(end)
      lo == IF a <= b THEN a ELSE b
      hi == IF a <= b THEN b ELSE a
  IN SubSeq(s, lo + 1, hi)

\* String.prototype.substring(start)
substringFrom(s, start) == substring(s, start, Len(s))

\* String.prototype.startsWith
startsWith(s, p) == Len(p) <= Len(s) /\ SubSeq(s, 1, Len(p)) = p

\* String.prototype.endsWith
endsWith(s, p) ==
  Len(p) <= Len(s) /\ SubSeq(s, Len(s) - Len(p) + 1, Len(s)) = p

RECURSIVE indexOfFrom(_, _, _)
\* the scan of String.prototype.indexOf from 0-based position k
indexOfFrom(s, sub, k) ==
  IF k + Len(sub) > Len(s) THEN -1
  ELSE IF SubSeq(s, k + 1, k + Len(sub)) = sub THEN k
  ELSE indexOfFrom(s, sub, k + 1)

\* String.prototype.indexOf: 0-based first occurrence, -1 when absent
indexOf(s, sub) == indexOfFrom(s, sub, 0)

RECURSIVE trimStart(_)
trimStart(s) ==
  IF s # <<>> /\ Head(s) \in WhitespaceChars THEN trimStart(Tail(s)) ELSE s

RECURSIVE trimEnd(_)
trimEnd(s) ==
  IF s # <<>> /\ s[Len(s)] \in WhitespaceChars
  THEN trimEnd(SubSeq(s, 1, Len(s) - 1))
  ELSE s

\* a plausible slip: trimStart() is called where trim() is meant
trim_startOnly(s) == trimStart(s)

\* String.prototype.trim
trim(s) == trimEnd(trimStart(s))

RECURSIVE collapseWhitespace(_)
\* .replace(/\s+/g, ' '): every maximal run of whitespace becomes one space
collapseWhitespace(s) ==
  IF s = <<>> THEN <<>>
  ELSE IF Head(s) \in WhitespaceChars
       THEN <<" ">> \o collapseWhitespace(trimStart(s))
       ELSE <<Head(s)>> \o collapseWhitespace(Tail(s))

(* ------------------------- cleanTranscribedText ------------------------- *)

RECURSIVE findPunctuationIndexes(_, _, _)
\* for (let i = textArray.length - 1; i >= 0; i--) push i when punctuation
findPunctuationIndexes(textArray, i, punctuationIndexes) ==
  IF i < 0 THEN punctuationIndexes
  ELSE findPunctuationIndexes(textArray, i - 1,
         IF textArray[i + 1] \in punctuationChars
         THEN Append(punctuationIndexes, i)
         ELSE punctuationIndexes)

\* textArray.splice(index, 1): nothing is removed when index >= length
splice(textArray, index) ==
  IF index >= Len(textArray) THEN textArray
  ELSE SubSeq(textArray, 1, index) \o SubSeq(textArray, index + 2, Len(textArray))

RECURSIVE removePunctuation(_, _, _)
\* for (let i = punctuationIndexes.length - 1; i >= 0; i--) splice(index, 1)
removePunctuation(textArray, punctuationIndexes, i) ==
  IF i < 0 THEN textArray
  ELSE removePunctuation(splice(textArray, punctuationIndexes[i + 1]),
                         punctuationIndexes, i - 1)

\* function cleanTranscribedText(text)
cleanTranscribedText(text) ==
  IF ~IsString(text) \/ text = <<>> THEN <<>>
  ELSE LET punctuationIndexes == findPunctuationIndexes(text, Len(text) - 1, <<>>)
           textArray == removePunctuation(text, punctuationIndexes,
                                          Len(punctuationIndexes) - 1)
       IN trim(collapseWhitespace(textArray))

(* ------------------------- findMatchingCommand -------------------------- *)

\* return { success: false, message: 'Empty command after cleaning' }
EmptyResult == [success |-> FALSE, message |-> "Empty command after cleaning"]

\* return { success: false, message: 'No commands found for this user' }
NoCommandsResult == [success |-> FALSE, message |-> "No commands found for this user"]

\* return { success: false, message: 'No matching command found' }
NoMatchResult == [success |-> FALSE, message |-> "No matching command found"]

\* the success object of the exact-match phase
ExactResult(command) ==
  [success |-> TRUE, command |-> command.command_name, parameter |-> Null,
   workflow_id |-> command.workflow_id, message |-> "Ready to execute workflow"]

\* the success object of the parameterized phase
ParamResult(command, paramValue) ==
  [success |-> TRUE, command |-> command.command_name, parameter |-> paramValue,
   workflow_id |-> command.workflow_id,
   message |-> "Ready to execute workflow with parameter"]

\* if (!cleanedUserInput)
isEmptyInput(cleanedUserInput) == cleanedUserInput = <<>>

\* a plausible slip: the test for an empty result is left out
noRows_unchecked(rows) == FALSE

\* if (result.rows.length === 0)
noRows(rows) == Len(rows) = 0

\* a plausible slip: the two sides are compared without toLowerCase
exactMatches_caseSensitive(command, cleanedUserInput) ==
  /\ ~command.has_parameter
  /\ cleanedUserInput = cleanTranscribedText(command.command_name)

\* the test of the first loop: !command.has_parameter and the lowercase
\* cleaned input equals the lowercase cleaned command name
exactMatches(command, cleanedUserInput) ==
  /\ ~command.has_parameter
  /\ toLowerCase(cleanedUserInput)
       = toLowerCase(cleanTranscribedText(command.command_name))

\* if (command.has_parameter && command.parameter_name)
isParameterized(command) ==
  /\ command.has_parameter
  /\ command.parameter_name # Null
  /\ command.parameter_name # <<>>

\* savedCommandLower.indexOf(savedParamLower)
paramIndexOf(command) ==
  indexOf(toLowerCase(cleanTranscribedText(command.command_name)),
          toLowerCase(cleanTranscribedText(command.parameter_name)))

\* a plausible slip: the check for a parameter that is absent from the command
\* name is left out
paramIndexMissing_unchecked(paramIndex) == FALSE

\* if (paramIndex === -1) continue
paramIndexMissing(paramIndex) == paramIndex = -1

\* const prefix = cleanedSavedCommand.substring(0, paramIndex)
prefixOf(command) ==
  substring(cleanTranscribedText(command.command_name), 0, paramIndexOf(command))

\* const suffix = cleanedSavedCommand.substring(paramIndex + cleanedSavedParam.length)
suffixOf(command) ==
  substringFrom(cleanTranscribedText(command.command_name),
                paramIndexOf(command)
                  + Len(cleanTranscribedText(command.parameter_name)))

\* the test of the second loop, up to the startsWith/endsWith condition
paramMatches(command, cleanedUserInput) ==
  /\ isParameterized(command)
  /\ ~paramIndexMissing(paramIndexOf(command))
  /\ startsWith(toLowerCase(cleanedUserInput), toLowerCase(prefixOf(command)))
  /\ endsWith(toLowerCase(cleanedUserInput), toLowerCase(suffixOf(command)))

\* const paramValue = cleanedUserInput.substring(prefix.length,
\*                      cleanedUserInput.length - suffix.length).trim()
paramValueOf(command, cleanedUserInput) ==
  trim(substring(cleanedUserInput, Len(prefixOf(command)),
                 Len(cleanedUserInput) - Len(suffixOf(command))))

RECURSIVE exactLoop(_, _, _)
\* for (const command of result.rows): index of the first exact match, 0 if none
exactLoop(rows, i, cleanedUserInput) ==
  IF i > Len(rows) THEN 0
  ELSE IF exactMatches(rows[i], cleanedUserInput) THEN i
  ELSE exactLoop(rows, i + 1, cleanedUserInput)

RECURSIVE paramLoop_lastWins(_, _, _)
\* a plausible slip: the loop stores the match and goes on instead of
\* returning, so the last match is the one returned
paramLoop_lastWins(rows, i, cleanedUserInput) ==
  IF i > Len(rows) THEN 0
  ELSE LET later == paramLoop_lastWins(rows, i + 1, cleanedUserInput)
       IN IF later # 0 THEN later
          ELSE IF paramMatches(rows[i], cleanedUserInput) THEN i
          ELSE 0

RECURSIVE paramLoop(_, _, _)
\* for (const command of result.rows): index of the first parameterized
\* match, 0 if none
paramLoop(rows, i, cleanedUserInput) ==
  IF i > Len(rows) THEN 0
  ELSE IF paramMatches(rows[i], cleanedUserInput) THEN i
  ELSE paramLoop(rows, i + 1, cleanedUserInput)

\* a plausible slip: the parameterized loop runs before the exact loop
matchRows_paramFirst(rows, cleanedUserInput) ==
  LET e == exactLoop(rows, 1, cleanedUserInput)
      p == paramLoop(rows, 1, cleanedUserInput)
  IN IF p # 0 THEN ParamResult(rows[p], paramValueOf(rows[p], cleanedUserInput))
     ELSE IF e # 0 THEN ExactResult(rows[e])
     ELSE NoMatchResult

\* STEP 2 and STEP 3 of findMatchingCommand over the fetched rows
matchRows(rows, cleanedUserInput) ==
  LET e == exactLoop(rows, 1, cleanedUserInput)
      p == paramLoop(rows, 1, cleanedUserInput)
  IN IF e # 0 THEN ExactResult(rows[e])
     ELSE IF p # 0 THEN ParamResult(rows[p], paramValueOf(rows[p], cleanedUserInput))
     ELSE NoMatchResult

\* findMatchingCommand after the query has returned its rows
resultForRows(rows, cleanedUserInput) ==
  IF noRows(rows) THEN NoCommandsResult ELSE matchRows(rows, cleanedUserInput)

(* ------------------------------ the server ------------------------------ *)

VARIABLES
  db,          \* the rows of table commands
  nextId,      \* the next value of the serial column id
  reqs,        \* the /execute-command requests, by request slot
  files,       \* the paths that exist in the upload directory ./uploads
  voice,       \* the /voice-command requests, by request slot
  clock        \* Date.now()

vars == <<db, nextId, reqs, files, voice, clock>>

\* the users that send requests
Users == {"u1", "u2"}

\* the request slots of /execute-command: two requests may be in flight
ReqIds == {1, 2}

\* the request slot the matching engine is examined with
MatchReqIds == {1}

\* the bodies POSTed to /save-command when the server is examined
ServerBodies ==
  { [user_id |-> "u1", command_name |-> <<"a">>, has_parameter |-> FALSE,
     parameter_name |-> Null, workflow_id |-> "w1"],
    [user_id |-> "u1", command_name |-> <<"a", "b">>, has_parameter |-> TRUE,
     parameter_name |-> <<"b">>, workflow_id |-> "w2"],
    [user_id |-> "u2", command_name |-> <<"a">>, has_parameter |-> FALSE,
     parameter_name |-> Null, workflow_id |-> "w7"],
    [user_id |-> "", command_name |-> <<"a">>, has_parameter |-> FALSE,
     parameter_name |-> Null, workflow_id |-> "w8"] }

\* the user_input values POSTed to /execute-command when the server is examined
ServerInputs == {<<"a">>, <<"a", "A">>, <<",">>}

\* the bodies POSTed to /save-command when the matching engine is examined
SaveBodies ==
  { [user_id |-> "u1", command_name |-> <<"a">>, has_parameter |-> FALSE,
     parameter_name |-> Null, workflow_id |-> "w1"],
    [user_id |-> "u1", command_name |-> <<"a", "b">>, has_parameter |-> TRUE,
     parameter_name |-> <<"b">>, workflow_id |-> "w2"],
    [user_id |-> "u1", command_name |-> <<"a", "b", "a">>, has_parameter |-> TRUE,
     parameter_name |-> <<"B">>, workflow_id |-> "w3"],
    [user_id |-> "u1", command_name |-> <<",">>, has_parameter |-> FALSE,
     parameter_name |-> Null, workflow_id |-> "w4"],
    [user_id |-> "u1", command_name |-> <<"a", "a">>, has_parameter |-> TRUE,
     parameter_name |-> <<"b">>, workflow_id |-> "w5"],
    [user_id |-> "u1", command_name |-> Null, has_parameter |-> FALSE,
     parameter_name |-> Null, workflow_id |-> "w6"] }

\* the user_input values POSTed to /execute-command when the matching engine
\* is examined
UserInputs == Strings(MaxInputLen) \cup {Null}

\* a request slot no request occupies
IdleReq ==
  [pc |-> "idle", user_input |-> Null, user_id |-> "none",
   cleanedUserInput |-> <<>>, rows |-> <<>>, queried |-> FALSE,
   queryFailed |-> FALSE, outcome |-> "none", status |-> 0,
   body |-> [pending |-> TRUE]]

\* the request slots of /voice-command: two requests may be in flight
VoiceIds == {1, 2}

\* if (audioFile.size < 1000)
MinAudioBytes == 1000

\* the sizes of the uploaded audio files
AudioSizes == {MinAudioBytes - 1, MinAudioBytes}

\* req.file is undefined: no file was stored for the request
NoFile == 0

\* the values of transcriptionResult.transcription: none, blank, punctuation
\* only, and a command
Transcriptions == {Null, <<" ">>, <<",">>, <<"a">>}

\* the bodies POSTed to /save-command while /voice-command is examined
VoiceBodies ==
  { [user_id |-> "u1", command_name |-> <<"a">>, has_parameter |-> FALSE,
     parameter_name |-> Null, workflow_id |-> "w1"],
    [user_id |-> "", command_name |-> <<"a">>, has_parameter |-> FALSE,
     parameter_name |-> Null, workflow_id |-> "w8"] }

\* a request slot no /voice-command request occupies
IdleVoice ==
  [pc |-> "idle", user_id |-> "none", path |-> NoFile, size |-> 0,
   transcribedText |-> <<>>, cleanedUserInput |-> <<>>, responses |-> 0,
   status |-> 0, unlinkFailed |-> FALSE, body |-> [pending |-> TRUE]]

Init ==
  /\ db = {}
  /\ nextId = 1
  /\ reqs = [r \in ReqIds |-> IdleReq]
  /\ files = {}
  /\ voice = [v \in VoiceIds |-> IdleVoice]
  /\ clock = 1

(* ------------------------------ the database ----------------------------- *)

RECURSIVE strLess(_, _)
\* command_name ASC: s sorts strictly before t, by code unit
strLess(s, t) ==
  IF t = <<>> THEN FALSE
  ELSE IF s = <<>> THEN TRUE
  ELSE IF CharCode(Head(s)) # CharCode(Head(t))
       THEN CharCode(Head(s)) < CharCode(Head(t))
       ELSE strLess(Tail(s), Tail(t))

\* ORDER BY has_parameter ASC, command_name ASC: row a may not follow row b
sortsBefore(a, b) ==
  \/ ~a.has_parameter /\ b.has_parameter
  \/ a.has_parameter = b.has_parameter /\ strLess(a.command_name, b.command_name)

\* a plausible slip: the WHERE user_id = $1 clause is left out of the query
selectCommands_allUsers(table, userId) ==
  LET n == Cardinality(table)
  IN {rows \in [1..n -> table] :
        /\ \A i, j \in 1..n : i # j => rows[i] # rows[j]
        /\ \A i, j \in 1..n : i < j => ~sortsBefore(rows[j], rows[i])}

\* SELECT * FROM commands WHERE user_id = $1 ORDER BY has_parameter ASC,
\* command_name ASC: the possible result.rows (rows that tie come in any order)
selectCommands(table, userId) ==
  LET mine == {row \in table : row.user_id = userId}
      n == Cardinality(mine)
  IN {rows \in [1..n -> mine] :
        /\ \A i, j \in 1..n : i # j => rows[i] # rows[j]
        /\ \A i, j \in 1..n : i < j => ~sortsBefore(rows[j], rows[i])}

\* the row INSERT INTO commands ... VALUES ($1, $2, $3, $4, $5, NOW()) adds
insertedRow(b, id) ==
  [id |-> id, user_id |-> b.user_id, command_name |-> b.command_name,
   has_parameter |-> b.has_parameter,
   parameter_name |-> IF b.parameter_name = <<>> THEN Null ELSE b.parameter_name,
   workflow_id |-> b.workflow_id]

\* if (!user_id || !command_name || !workflow_id); an absent identifier is ""
missingFields(b) ==
  \/ b.user_id = ""
  \/ b.command_name = Null \/ b.command_name = <<>>
  \/ b.workflow_id = ""

(* ------------------------------- handlers ------------------------------- *)

\* POST /save-command with a body that lacks a required field: the handler
\* answers 400 and touches neither the table nor any other request
SaveCommandInvalid(b) ==
  /\ missingFields(b)
  /\ UNCHANGED <<db, nextId, reqs, files, voice, clock>>

\* POST /save-command: the INSERT succeeds, res.json(response)
SaveCommandOk(b) ==
  /\ ~missingFields(b)
  /\ nextId <= MaxCmds
  /\ db' = db \cup {insertedRow(b, nextId)}
  /\ nextId' = nextId + 1
  /\ UNCHANGED <<reqs, files, voice, clock>>

\* POST /save-command: pool.query rejects, the handler answers 500 and the
\* table is as before
SaveCommandDbError(b) ==
  /\ ~missingFields(b)
  /\ UNCHANGED <<db, nextId, reqs, files, voice, clock>>

\* DELETE /commands/:id: DELETE FROM commands WHERE id = $1 succeeds
DeleteCommandOk(commandId) ==
  /\ db' = {row \in db : row.id # commandId}
  /\ UNCHANGED <<nextId, reqs, files, voice, clock>>

\* DELETE /commands/:id: pool.query rejects, the handler answers 500 and the
\* table is as before
DeleteCommandDbError(commandId) ==
  /\ commandId \in 1..MaxCmds
  /\ UNCHANGED <<db, nextId, reqs, files, voice, clock>>

\* POST /execute-command, with user_input drawn from inputs, up to the await
\* of pool.query: the input is cleaned; an empty cleaned input is answered at
\* once
ExecuteCommandStart(r, inputs) ==
  /\ reqs[r].pc = "idle"
  /\ \E userInput \in inputs, userId \in Users :
       LET cleanedUserInput == cleanTranscribedText(userInput)
           started == [IdleReq EXCEPT !.user_input = userInput,
                                      !.user_id = userId,
                                      !.cleanedUserInput = cleanedUserInput]
       IN reqs' = [reqs EXCEPT ![r] =
            IF isEmptyInput(cleanedUserInput)
            THEN [started EXCEPT !.pc = "done", !.outcome = "returned",
                                 !.status = 200, !.body = EmptyResult]
            ELSE [started EXCEPT !.pc = "query"]]
  /\ UNCHANGED <<db, nextId, files, voice, clock>>

\* a plausible slip: the catch block of findMatchingCommand swallows the error
\* and reports that the user has no commands
ExecuteCommandQueryFail_masked(r) ==
  /\ reqs[r].pc = "query"
  /\ reqs' = [reqs EXCEPT ![r] =
       [@ EXCEPT !.pc = "done", !.queried = TRUE, !.queryFailed = TRUE,
                 !.outcome = "returned", !.status = 200,
                 !.body = NoCommandsResult]]
  /\ UNCHANGED <<db, nextId, files, voice, clock>>

\* a plausible slip: cleanedUserInput is declared without const and so shared
\* by the calls; after the await a call reads what a later call stored
ExecuteCommandQueryOk_sharedInput(r) ==
  /\ reqs[r].pc = "query"
  /\ \E rows \in selectCommands(db, reqs[r].user_id) :
       LET other == CHOOSE q \in ReqIds : q # r
           shared == IF reqs[other].pc # "idle"
                     THEN reqs[other].cleanedUserInput
                     ELSE reqs[r].cleanedUserInput
       IN reqs' = [reqs EXCEPT ![r] =
            [@ EXCEPT !.pc = "done", !.queried = TRUE, !.rows = rows,
                      !.outcome = "returned", !.status = 200,
                      !.body = resultForRows(rows, shared)]]
  /\ UNCHANGED <<db, nextId, files, voice, clock>>

\* pool.query returns result.rows: findMatchingCommand returns its result
\* and the handler answers res.json(matchResult)
ExecuteCommandQueryOk(r) ==
  /\ reqs[r].pc = "query"
  /\ \E rows \in selectCommands(db, reqs[r].user_id) :
       reqs' = [reqs EXCEPT ![r] =
         [@ EXCEPT !.pc = "done", !.queried = TRUE, !.rows = rows,
                   !.outcome = "returned", !.status = 200,
                   !.body = resultForRows(rows, reqs[r].cleanedUserInput)]]
  /\ UNCHANGED <<db, nextId, files, voice, clock>>

\* pool.query rejects: findMatchingCommand logs and rethrows, the handler
\* catches and answers res.status(500)
ExecuteCommandQueryFail(r) ==
  /\ reqs[r].pc = "query"
  /\ reqs' = [reqs EXCEPT ![r] =
       [@ EXCEPT !.pc = "done", !.queried = TRUE, !.queryFailed = TRUE,
                 !.outcome = "threw", !.status = 500,
                 !.body = [success |-> FALSE,
                           error |-> "Command execution failed"]]]
  /\ UNCHANGED <<db, nextId, files, voice, clock>>

(* ----------------------------- /voice-command --------------------------- *)

\* Date.now() moves on
Tick ==
  /\ clock < MaxClock
  /\ clock' = clock + 1
  /\ UNCHANGED <<db, nextId, reqs, files, voice>>

\* filename: `voice-${Date.now()}.webm` in ./uploads; two uploads of the same
\* millisecond get the same path
uploadPath == clock

\* const response = {...}: the match result with the transcribed text
VoiceResponse(matchResult, text) ==
  [success |-> matchResult.success,
   transcribed_text |-> text,
   command |-> IF "command" \in DOMAIN matchResult
               THEN matchResult.command ELSE Null,
   parameter |-> IF "parameter" \in DOMAIN matchResult
                 THEN matchResult.parameter ELSE Null,
   workflow_id |-> IF "workflow_id" \in DOMAIN matchResult
                   THEN matchResult.workflow_id ELSE "",
   message |-> matchResult.message]

\* res.status(status).json(body) on the request record
respond(request, status, body) ==
  [request EXCEPT !.responses = @ + 1, !.status = status, !.body = body]

\* the finally block, run after answered has been sent: if the file exists,
\* fs.unlinkSync removes it, or throws and the error is only logged
finallyCleanup(v, answered) ==
  IF answered.path # NoFile /\ answered.path \in files
  THEN \/ /\ files' = files \ {answered.path}
          /\ voice' = [voice EXCEPT ![v] = [answered EXCEPT !.pc = "done"]]
       \/ /\ files' = files
          /\ voice' = [voice EXCEPT ![v] =
               [answered EXCEPT !.pc = "done", !.unlinkFailed = TRUE]]
  ELSE /\ files' = files
       /\ voice' = [voice EXCEPT ![v] = [answered EXCEPT !.pc = "done"]]

\* the request carries no audio file: if (!audioFile) return res.status(400)
VoiceNoFile(v) ==
  /\ voice[v].pc = "idle"
  /\ \E userId \in Users :
       voice' = [voice EXCEPT ![v] =
         [respond([IdleVoice EXCEPT !.user_id = userId], 400,
                  [success |-> FALSE, error |-> "No audio file provided"])
          EXCEPT !.pc = "done"]]
  /\ UNCHANGED <<db, nextId, reqs, files, clock>>

\* multer stores a file of fewer than 1000 bytes; the handler unlinks it and
\* answers 'Audio file too small'
VoiceFileTooSmall(v) ==
  /\ voice[v].pc = "idle"
  /\ \E userId \in Users, size \in AudioSizes :
       /\ size < MinAudioBytes
       /\ files' = (files \cup {uploadPath}) \ {uploadPath}
       /\ voice' = [voice EXCEPT ![v] =
            [respond([IdleVoice EXCEPT !.user_id = userId,
                                       !.path = uploadPath, !.size = size],
                     200, [success |-> FALSE, message |-> "Audio file too small",
                           transcribed_text |-> <<>>])
             EXCEPT !.pc = "done"]]
  /\ UNCHANGED <<db, nextId, reqs, clock>>

\* multer stores a file of fewer than 1000 bytes and fs.unlinkSync throws:
\* the call stands outside the try block, so the handler's promise rejects
\* before res.json.  Express 4 ignores the rejection and nothing is answered;
\* Express 5 passes it to its error handler, which answers 500.
VoiceFileTooSmallUnlinkThrows(v) ==
  /\ voice[v].pc = "idle"
  /\ \E userId \in Users, size \in AudioSizes, answeredByFramework \in BOOLEAN :
       /\ size < MinAudioBytes
       /\ files' = files \cup {uploadPath}
       /\ LET request == [IdleVoice EXCEPT !.user_id = userId,
                                           !.path = uploadPath, !.size = size,
                                           !.unlinkFailed = TRUE]
          IN voice' = [voice EXCEPT ![v] =
               [(IF answeredByFramework
                 THEN respond(request, 500, [success |-> FALSE,
                                             error |-> "Internal Server Error"])
                 ELSE request)
                EXCEPT !.pc = "done"]]
  /\ UNCHANGED <<db, nextId, reqs, clock>>

\* multer stores a file of at least 1000 bytes; the handler calls
\* sendAudioToWhisperServer, which finds the file and awaits fetch
VoiceTranscribe(v) ==
  /\ voice[v].pc = "idle"
  /\ \E userId \in Users, size \in AudioSizes :
       /\ size >= MinAudioBytes
       /\ files' = files \cup {uploadPath}
       /\ voice' = [voice EXCEPT ![v] =
            [IdleVoice EXCEPT !.pc = "whisper", !.user_id = userId,
                              !.path = uploadPath, !.size = size]]
  /\ UNCHANGED <<db, nextId, reqs, clock>>

\* sendAudioToWhisperServer throws 'Failed to transcribe audio': the catch
\* block answers 500
VoiceWhisperThrows(v) ==
  /\ voice[v].pc = "whisper"
  /\ finallyCleanup(v, respond(voice[v], 500,
                               [success |-> FALSE,
                                error |-> "Voice processing failed"]))
  /\ UNCHANGED <<db, nextId, reqs, clock>>

\* if (!transcriptionResult.success) return res.json(...)
VoiceTranscriptionFailed(v) ==
  /\ voice[v].pc = "whisper"
  /\ finallyCleanup(v, respond(voice[v], 200,
                               [success |-> FALSE,
                                message |-> "Transcription failed",
                                transcribed_text |-> <<>>]))
  /\ UNCHANGED <<db, nextId, reqs, clock>>

\* if (!transcribedText || transcribedText.trim() === '') return res.json(...)
VoiceNoSpeech(v) ==
  /\ voice[v].pc = "whisper"
  /\ \E text \in Transcriptions :
       /\ text = Null \/ trim(text) = <<>>
       /\ finallyCleanup(v, respond(voice[v], 200,
                                    [success |-> FALSE,
                                     message |-> "No speech detected in audio",
                                     transcribed_text |-> <<>>]))
  /\ UNCHANGED <<db, nextId, reqs, clock>>

\* await findMatchingCommand(transcribedText.trim(), user_id, requestId), up
\* to the await of pool.query: an empty cleaned text is answered at once
VoiceMatchStart(v) ==
  /\ voice[v].pc = "whisper"
  /\ \E text \in Transcriptions :
       /\ text # Null /\ trim(text) # <<>>
       /\ LET cleanedUserInput == cleanTranscribedText(trim(text))
              heard == [voice[v] EXCEPT !.transcribedText = text,
                                        !.cleanedUserInput = cleanedUserInput]
          IN IF isEmptyInput(cleanedUserInput)
             THEN finallyCleanup(v, respond(heard, 200,
                                            VoiceResponse(EmptyResult, trim(text))))
             ELSE /\ voice' = [voice EXCEPT ![v] = [heard EXCEPT !.pc = "query"]]
                  /\ files' = files
  /\ UNCHANGED <<db, nextId, reqs, clock>>

\* pool.query returns result.rows: res.json(response) with the match result
VoiceMatchQueryOk(v) ==
  /\ voice[v].pc = "query"
  /\ \E rows \in selectCommands(db, voice[v].user_id) :
       finallyCleanup(v, respond(voice[v], 200,
         VoiceResponse(resultForRows(rows, voice[v].cleanedUserInput),
                       trim(voice[v].transcribedText))))
  /\ UNCHANGED <<db, nextId, reqs, clock>>

\* pool.query rejects: findMatchingCommand rethrows and the catch block
\* answers 500
VoiceMatchQueryFail(v) ==
  /\ voice[v].pc = "query"
  /\ finallyCleanup(v, respond(voice[v], 500,
                               [success |-> FALSE,
                                error |-> "Voice processing failed"]))
  /\ UNCHANGED <<db, nextId, reqs, clock>>

\* the server: commands are saved and deleted while /execute-command requests
\* are in flight
Next ==
  \/ \E b \in ServerBodies : SaveCommandInvalid(b)
  \/ \E b \in ServerBodies : SaveCommandOk(b)
  \/ \E b \in ServerBodies : SaveCommandDbError(b)
  \/ \E commandId \in 1..MaxCmds : DeleteCommandOk(commandId)
  \/ \E commandId \in 1..MaxCmds : DeleteCommandDbError(commandId)
  \/ \E r \in ReqIds : ExecuteCommandStart(r, ServerInputs)
  \/ \E r \in ReqIds : ExecuteCommandQueryOk(r)
  \/ \E r \in ReqIds : ExecuteCommandQueryFail(r)

Spec == Init /\ [][Next]_vars

\* the matching engine: one request with any input of the alphabet, against
\* every table that /save-command requests build.  A table that DELETE leaves
\* behind is also built by saving its rows alone, so DELETE adds no table.
NextMatch ==
  \/ \E b \in SaveBodies : SaveCommandInvalid(b)
  \/ \E b \in SaveBodies : SaveCommandOk(b)
  \/ \E b \in SaveBodies : SaveCommandDbError(b)
  \/ \E r \in MatchReqIds : ExecuteCommandStart(r, UserInputs)
  \/ \E r \in MatchReqIds : ExecuteCommandQueryOk(r)
  \/ \E r \in MatchReqIds : ExecuteCommandQueryFail(r)

SpecMatch == Init /\ [][NextMatch]_vars

\* the characters of a transcription: those of InputChars and a whitespace
\* character that is not a space
TextChars == InputChars \cup {"\t"}

\* the texts the normalizer is examined with
TextInputs == UNION {[1..k -> TextChars] : k \in 0..MaxInputLen} \cup {Null}

\* the normalizer: one request with any text over TextChars, the table empty
NextClean ==
  \/ \E r \in MatchReqIds : ExecuteCommandStart(r, TextInputs)
  \/ \E r \in MatchReqIds : ExecuteCommandQueryOk(r)
  \/ \E r \in MatchReqIds : ExecuteCommandQueryFail(r)

SpecClean == Init /\ [][NextClean]_vars

\* the voice endpoint: /voice-command requests in flight while time passes
\* and commands are saved
NextVoice ==
  \/ \E b \in VoiceBodies : SaveCommandInvalid(b)
  \/ \E b \in VoiceBodies : SaveCommandOk(b)
  \/ \E b \in VoiceBodies : SaveCommandDbError(b)
  \/ Tick
  \/ \E v \in VoiceIds : VoiceNoFile(v)
  \/ \E v \in VoiceIds : VoiceFileTooSmall(v)
  \/ \E v \in VoiceIds : VoiceFileTooSmallUnlinkThrows(v)
  \/ \E v \in VoiceIds : VoiceTranscribe(v)
  \/ \E v \in VoiceIds : VoiceWhisperThrows(v)
  \/ \E v \in VoiceIds : VoiceTranscriptionFailed(v)
  \/ \E v \in VoiceIds : VoiceNoSpeech(v)
  \/ \E v \in VoiceIds : VoiceMatchStart(v)
  \/ \E v \in VoiceIds : VoiceMatchQueryOk(v)
  \/ \E v \in VoiceIds : VoiceMatchQueryFail(v)

SpecVoice == Init /\ [][NextVoice]_vars

(* ------------------------ vocabulary of the claims ----------------------- *)

\* request r has been answered after a successful query
Matched(r) ==
  reqs[r].pc = "done" /\ reqs[r].queried /\ ~reqs[r].queryFailed

\* the step answers request r
Completes(r) == reqs[r].pc # "done" /\ reqs'[r].pc = "done"

NotPunctuation(c) == c \notin punctuationChars

\* text with every punctuation character deleted and nothing else changed
withoutPunctuation(text) ==
  IF IsString(text) THEN SelectSeq(text, NotPunctuation) ELSE text

\* text holds nothing but punctuation and whitespace
onlyPunctuationAndSpace(text) ==
  \A i \in 1..Len(text) : text[i] \in punctuationChars \cup WhitespaceChars

\* what findMatchingCommand returns for userInput when the query yields rows
outcomeFor(userInput, rows) ==
  IF isEmptyInput(cleanTranscribedText(userInput)) THEN EmptyResult
  ELSE resultForRows(rows, cleanTranscribedText(userInput))

\* sub occurs in s
isSubstringOf(sub, s) ==
  \E k \in 0..(Len(s) - Len(sub)) : SubSeq(s, k + 1, k + Len(sub)) = sub

\* the result names this command
names(result, command) ==
  /\ result.success
  /\ result.command = command.command_name
  /\ result.workflow_id = command.workflow_id

\* a parameterized command whose parameter_name does not occur in its
\* command_name, case-insensitively, after normalizing both
malformed(command) ==
  /\ command.has_parameter
  /\ command.parameter_name # Null
  /\ ~isSubstringOf(toLowerCase(cleanTranscribedText(command.parameter_name)),
                    toLowerCase(cleanTranscribedText(command.command_name)))

\* prefix and suffix of the command both match the input, yet they are
\* together longer than the input
overlaps(command, cleanedUserInput) ==
  /\ paramMatches(command, cleanedUserInput)
  /\ Len(prefixOf(command)) + Len(suffixOf(command)) > Len(cleanedUserInput)

\* the characters of the input from index prefix.length up to, not including,
\* index length - suffix.length, trimmed
sliceBetween(command, cleanedUserInput) ==
  trim(SubSeq(cleanedUserInput, Len(prefixOf(command)) + 1,
              Len(cleanedUserInput) - Len(suffixOf(command))))

\* the user has a non-parameterized command whose normalized name equals the
\* normalized input, case-insensitively
hasExactCommand(table, userId, cleanedUserInput) ==
  \E row \in table :
    /\ row.user_id = userId
    /\ ~row.has_parameter
    /\ toLowerCase(cleanTranscribedText(row.command_name))
         = toLowerCase(cleanedUserInput)

\* the non-parameterized command equals the input after normalizing both, up
\* to letter case
equalUpToCase(command, cleanedUserInput) ==
  /\ ~command.has_parameter
  /\ toLowerCase(cleanTranscribedText(command.command_name))
       = toLowerCase(cleanedUserInput)

\* the position in rows of the first command that equals the input up to case
firstEqualUpToCase(rows, cleanedUserInput) ==
  CHOOSE i \in 1..Len(rows) :
    /\ equalUpToCase(rows[i], cleanedUserInput)
    /\ \A j \in 1..(i - 1) : ~equalUpToCase(rows[j], cleanedUserInput)

NotWhitespace(c) == c \notin WhitespaceChars

NotPunctuationNorWhitespace(c) ==
  c \notin punctuationChars /\ c \notin WhitespaceChars

\* the command has has_parameter = true and a non-empty parameter_name, and
\* it passes the prefix/suffix test: with the first occurrence of the
\* normalized parameter name cut out of the normalized command name, the
\* input starts with what stands before it and ends with what stands after
\* it, case-insensitively
passesPrefixSuffixTest(command, cleanedUserInput) ==
  /\ command.has_parameter
  /\ command.parameter_name # Null
  /\ command.parameter_name # <<>>
  /\ LET n == cleanTranscribedText(command.command_name)
         p == cleanTranscribedText(command.parameter_name)
         u == cleanedUserInput
         K == {k \in 0..(Len(n) - Len(p)) :
                 toLowerCase(SubSeq(n, k + 1, k + Len(p))) = toLowerCase(p)}
     IN /\ K # {}
        /\ LET k == CHOOSE x \in K : \A y \in K : x <= y
               pre == SubSeq(n, 1, k)
               suf == SubSeq(n, k + Len(p) + 1, Len(n))
           IN /\ Len(pre) <= Len(u)
              /\ toLowerCase(SubSeq(u, 1, Len(pre))) = toLowerCase(pre)
              /\ Len(suf) <= Len(u)
              /\ toLowerCase(SubSeq(u, Len(u) - Len(suf) + 1, Len(u)))
                   = toLowerCase(suf)

\* the position in rows of the first command that passes the test
firstPassing(rows, cleanedUserInput) ==
  CHOOSE i \in 1..Len(rows) :
    /\ passesPrefixSuffixTest(rows[i], cleanedUserInput)
    /\ \A j \in 1..(i - 1) : ~passesPrefixSuffixTest(rows[j], cleanedUserInput)

(* -------------------------------- claims -------------------------------- *)

\* C1: the cleaned text of every request holds no character of the
\* punctuation set.
C1_NoPunctuationLeft ==
  \A r \in ReqIds : reqs[r].pc # "idle" =>
    \A i \in 1..Len(reqs[r].cleanedUserInput) :
      reqs[r].cleanedUserInput[i] \notin punctuationChars

\* C2: the normalizer is idempotent: cleaning the cleaned text of a request
\* again gives the same text.
C2_Idempotent ==
  \A r \in ReqIds : reqs[r].pc # "idle" =>
    cleanTranscribedText(reqs[r].cleanedUserInput) = reqs[r].cleanedUserInput

\* C3: punctuation is irrelevant to matching: when an input or the same input
\* without its punctuation characters matches a command of the fetched rows,
\* both resolve to the same command and the same parameter value.
C3_PunctuationIrrelevant ==
  \A r \in ReqIds : Matched(r) =>
    LET plain == outcomeFor(withoutPunctuation(reqs[r].user_input), reqs[r].rows)
    IN (reqs[r].body.success \/ plain.success) => reqs[r].body = plain

\* C4: an input of punctuation and whitespace only, an empty input and a
\* non-string input are answered 'Empty command after cleaning' without the
\* commands being looked at.
C4_PunctuationOnlyIsEmpty ==
  \A r \in ReqIds :
    (reqs[r].pc # "idle" /\
       (~IsString(reqs[r].user_input) \/ onlyPunctuationAndSpace(reqs[r].user_input)))
    => (reqs[r].pc = "done" /\ ~reqs[r].queried /\ reqs[r].body = EmptyResult)

\* C5: a parameterized command whose prefix and suffix both match the input
\* but overlap in it (prefix.length + suffix.length > input length) is not
\* returned as a match.
C5_OverlapIsNoMatch ==
  \A r \in ReqIds : Matched(r) =>
    \A i \in 1..Len(reqs[r].rows) :
      overlaps(reqs[r].rows[i], reqs[r].cleanedUserInput)
      => ~(names(reqs[r].body, reqs[r].rows[i]) /\ reqs[r].body.parameter # Null)

\* C6 as stated: whenever the user has a non-parameterized command whose
\* normalized name equals the normalized input case-insensitively, the result
\* is a success naming a non-parameterized command with parameter = null.
C6_ExactWins_Original ==
  [][\A r \in ReqIds :
       (/\ Completes(r)
        /\ reqs'[r].outcome = "returned"
        /\ hasExactCommand(db, reqs'[r].user_id, reqs'[r].cleanedUserInput))
       => (/\ reqs'[r].body.success
           /\ reqs'[r].body.parameter = Null
           /\ \E row \in db : /\ row.user_id = reqs'[r].user_id
                              /\ ~row.has_parameter
                              /\ names(reqs'[r].body, row))]_vars

\* C6 as amended: exact match takes precedence over parameterized match
\* whenever the normalized input is not empty: if the user then has a
\* non-parameterized command whose normalized name equals the normalized input
\* case-insensitively, the result is a success naming a non-parameterized
\* command with parameter = null.
C6_ExactWins ==
  [][\A r \in ReqIds :
       (/\ Completes(r)
        /\ reqs'[r].outcome = "returned"
        /\ reqs'[r].cleanedUserInput # <<>>
        /\ hasExactCommand(db, reqs'[r].user_id, reqs'[r].cleanedUserInput))
       => (/\ reqs'[r].body.success
           /\ reqs'[r].body.parameter = Null
           /\ \E row \in db : /\ row.user_id = reqs'[r].user_id
                              /\ ~row.has_parameter
                              /\ names(reqs'[r].body, row))]_vars

\* C6 witness: an exact match was returned although a parameterized command of
\* the fetched rows matches the input too.
C6_Witness ==
  \E r \in ReqIds :
    /\ Matched(r)
    /\ reqs[r].body.success
    /\ reqs[r].body.parameter = Null
    /\ \E i \in 1..Len(reqs[r].rows) :
         paramMatches(reqs[r].rows[i], reqs[r].cleanedUserInput)

\* C7: the parameter of a parameterized match is the part of the normalized
\* input, in the user's casing, from index prefix.length up to index
\* length - suffix.length, trimmed.
C7_ParameterIsSlice ==
  \A r \in ReqIds :
    (Matched(r) /\ reqs[r].body.success /\ reqs[r].body.parameter # Null) =>
      \E i \in 1..Len(reqs[r].rows) :
        /\ names(reqs[r].body, reqs[r].rows[i])
        /\ isParameterized(reqs[r].rows[i])
        /\ reqs[r].body.parameter
             = sliceBetween(reqs[r].rows[i], reqs[r].cleanedUserInput)

\* C8: a parameterized command whose parameter_name is not a substring of its
\* command_name is never the command returned, raises nothing, and does not
\* keep a later command that matches from being returned.
C8_MalformedSkipped ==
  \A r \in ReqIds : Matched(r) =>
    /\ reqs[r].outcome = "returned"
    /\ reqs[r].body.success =>
         \E i \in 1..Len(reqs[r].rows) :
           names(reqs[r].body, reqs[r].rows[i]) /\ ~malformed(reqs[r].rows[i])
    /\ \A i, j \in 1..Len(reqs[r].rows) :
         (/\ i < j
          /\ malformed(reqs[r].rows[i])
          /\ resultForRows(<<reqs[r].rows[j]>>, reqs[r].cleanedUserInput).success)
         => reqs[r].body.success

\* C8 witness: a malformed command precedes the command that was returned.
C8_Witness ==
  \E r \in ReqIds :
    /\ Matched(r)
    /\ \E i, j \in 1..Len(reqs[r].rows) :
         /\ i < j
         /\ malformed(reqs[r].rows[i])
         /\ names(reqs[r].body, reqs[r].rows[j])
         /\ ~names(reqs[r].body, reqs[r].rows[i])

\* C9 as stated: for a user who has no commands the call returns
\* 'No commands found for this user' for any non-empty input.
C9_NoCommands_Original ==
  [][\A r \in ReqIds :
       (/\ Completes(r)
        /\ reqs'[r].outcome = "returned"
        /\ IsString(reqs'[r].user_input)
        /\ reqs'[r].user_input # <<>>
        /\ ~\E row \in db : row.user_id = reqs'[r].user_id)
       => reqs'[r].body = NoCommandsResult]_vars

\* C9 as amended: for a user who has no commands the call returns
\* 'No commands found for this user' for any input whose normalized form is
\* not empty.
C9_NoCommands ==
  [][\A r \in ReqIds :
       (/\ Completes(r)
        /\ reqs'[r].outcome = "returned"
        /\ reqs'[r].cleanedUserInput # <<>>
        /\ ~\E row \in db : row.user_id = reqs'[r].user_id)
       => reqs'[r].body = NoCommandsResult]_vars

\* C9 witness: a user without commands was answered so while the table holds
\* commands of another user.
C9_Witness ==
  \E r \in ReqIds :
    /\ Matched(r)
    /\ reqs[r].body = NoCommandsResult
    /\ db # {}
    /\ ~\E row \in db : row.user_id = reqs[r].user_id

\* C10: findMatchingCommand throws exactly when the repository query fails;
\* every other outcome is a result object answered with status 200, and the
\* failed query is answered with status 500 and success:false.
C10_ThrowsIffQueryFails ==
  \A r \in ReqIds :
    /\ (reqs[r].outcome = "threw") <=> reqs[r].queryFailed
    /\ reqs[r].pc = "done" =>
         IF reqs[r].queryFailed
         THEN /\ reqs[r].status = 500
              /\ reqs[r].body.success = FALSE
              /\ "error" \in DOMAIN reqs[r].body
         ELSE /\ reqs[r].outcome = "returned"
              /\ reqs[r].status = 200
              /\ "message" \in DOMAIN reqs[r].body

\* C10 witness: a request whose query failed was answered with status 500.
C10_Witness ==
  \E r \in ReqIds :
    reqs[r].pc = "done" /\ reqs[r].queryFailed /\ reqs[r].status = 500

C12_CallsIndependent ==
  [][\A r \in ReqIds :
       /\ (Completes(r) /\ reqs'[r].outcome = "returned")
            => /\ reqs'[r].body = outcomeFor(reqs'[r].user_input, reqs'[r].rows)
               /\ reqs'[r].queried
                    => reqs'[r].rows \in selectCommands(db, reqs'[r].user_id)
       /\ reqs'[r] # reqs[r]
            => \A q \in ReqIds \ {r} : reqs'[q] = reqs[q]
       /\ (reqs[r].pc = "query" /\ reqs'[r].pc = "query") => reqs'[r] = reqs[r]
       /\ reqs[r].pc = "done" => reqs'[r] = reqs[r]]_vars

\* C12 witness: two calls were answered with different results, and the
\* commands of a call's user are no longer the rows the call fetched.
C12_Witness ==
  \E r, q \in ReqIds :
    /\ r # q
    /\ Matched(r) /\ Matched(q)
    /\ reqs[r].body.success /\ reqs[q].body.success
    /\ reqs[r].body # reqs[q].body
    /\ reqs[r].rows \notin selectCommands(db, reqs[r].user_id)

\* C13: the cleaned text of every request has no whitespace character other
\* than the space, no two adjacent spaces, and neither starts nor ends with
\* whitespace.
C13_WhitespaceNormalized ==
  \A r \in ReqIds : reqs[r].pc # "idle" =>
    LET t == reqs[r].cleanedUserInput
    IN /\ \A i \in 1..Len(t) : t[i] \in WhitespaceChars => t[i] = " "
       /\ \A i \in 1..(Len(t) - 1) : ~(t[i] = " " /\ t[i + 1] = " ")
       /\ t # <<>> => (t[1] \notin WhitespaceChars /\ t[Len(t)] \notin WhitespaceChars)

\* C13 witness: texts with a tab, with a run of whitespace and with whitespace
\* at an end were cleaned; this one has a tab between two words and came out
\* with a single space there.
C13_Witness ==
  \E r \in ReqIds :
    /\ reqs[r].pc # "idle"
    /\ IsString(reqs[r].user_input)
    /\ \E i \in 1..Len(reqs[r].user_input) : reqs[r].user_input[i] = "\t"
    /\ \E i \in 1..Len(reqs[r].cleanedUserInput) : reqs[r].cleanedUserInput[i] = " "

\* C14: the normalizer removes only punctuation and surplus whitespace and
\* keeps letter case: the non-whitespace characters of the cleaned text are
\* the characters of the input that are neither punctuation nor whitespace,
\* in the same order and case.
C14_OnlyPunctuationRemoved ==
  \A r \in ReqIds :
    (reqs[r].pc # "idle" /\ IsString(reqs[r].user_input)) =>
      SelectSeq(reqs[r].cleanedUserInput, NotWhitespace)
        = SelectSeq(reqs[r].user_input, NotPunctuationNorWhitespace)

\* C15: first match wins in the parameterized phase: when no
\* non-parameterized command of the fetched rows matches the input exactly,
\* the command returned is the first of the rows, in their order, that has
\* has_parameter = true, a non-empty parameter_name and passes the
\* prefix/suffix test, and the result carries that command's command_name and
\* workflow_id as stored; a command is returned only if such a row exists.
C15_FirstParamMatchWins ==
  \A r \in ReqIds :
    (/\ Matched(r)
     /\ ~\E i \in 1..Len(reqs[r].rows) :
           equalUpToCase(reqs[r].rows[i], reqs[r].cleanedUserInput))
    => IF \E i \in 1..Len(reqs[r].rows) :
            passesPrefixSuffixTest(reqs[r].rows[i], reqs[r].cleanedUserInput)
       THEN LET first == reqs[r].rows[firstPassing(reqs[r].rows,
                                                   reqs[r].cleanedUserInput)]
            IN /\ reqs[r].body.success
               /\ reqs[r].body.parameter # Null
               /\ reqs[r].body.command = first.command_name
               /\ reqs[r].body.workflow_id = first.workflow_id
       ELSE ~reqs[r].body.success

\* C15 witness: two parameterized commands of different names both pass the
\* test, and the earlier one was returned.
C15_Witness ==
  \E r \in ReqIds :
    /\ Matched(r)
    /\ reqs[r].body.success
    /\ reqs[r].body.parameter # Null
    /\ \E i, j \in 1..Len(reqs[r].rows) :
         /\ i < j
         /\ passesPrefixSuffixTest(reqs[r].rows[i], reqs[r].cleanedUserInput)
         /\ passesPrefixSuffixTest(reqs[r].rows[j], reqs[r].cleanedUserInput)
         /\ reqs[r].rows[i].workflow_id # reqs[r].rows[j].workflow_id
         /\ reqs[r].body.workflow_id = reqs[r].rows[i].workflow_id

\* C16: user scoping: whatever save and delete requests of whatever users came
\* before, a call that succeeds returns the command_name and workflow_id of a
\* command that is stored with the caller's user_id when the call reads the
\* table.
C16_UserScoped ==
  [][\A r \in ReqIds :
       (Completes(r) /\ reqs'[r].outcome = "returned" /\ reqs'[r].body.success)
       => \E row \in db : /\ row.user_id = reqs'[r].user_id
                          /\ names(reqs'[r].body, row)]_vars

\* C16 witness: a call succeeded for a user while another user has a command
\* of the same name under another workflow.
C16_Witness ==
  \E r \in ReqIds :
    /\ Matched(r)
    /\ reqs[r].body.success
    /\ \E row \in db : /\ row.user_id # reqs[r].user_id
                       /\ row.command_name = reqs[r].body.command
                       /\ row.workflow_id # reqs[r].body.workflow_id
    /\ \E row \in db : /\ row.user_id = reqs[r].user_id
                       /\ names(reqs[r].body, row)

\* C17: every /voice-command request that received an uploaded audio file
\* ends with that file gone from the upload directory, and exactly one response
\* has been sent for it: none before the handler ends and one when it ends.
C17_FileDeletedOneResponse ==
  [][\A v \in VoiceIds :
       /\ voice'[v].pc # "done" => voice'[v].responses = 0
       /\ (voice[v].pc # "done" /\ voice'[v].pc = "done" /\ voice'[v].path # NoFile)
            => /\ voice'[v].path \notin files'
               /\ voice'[v].responses = 1]_vars

====
